---- MODULE Spec2Model ----
(***************************************************************************)
(* Rails I18n IntelliSense: the locale scanner (src/src/i18nLocalesScanner *)
(* .ts) as a state machine.                                                *)
(*                                                                         *)
(* A JavaScript string is a sequence of one-character strings, so that     *)
(* split, join, trim, toLowerCase and the regular expressions of the       *)
(* source are computed character by character.                             *)
(***************************************************************************)
EXTENDS Integers, Sequences, FiniteSets, TLC

\* ---------------------------------------------------------------- strings

Upper == <<"A","B","C","D","E","F","G","H","I","J","K","L","M",
           "N","O","P","Q","R","S","T","U","V","W","X","Y","Z">>

Lowers == <<"a","b","c","d","e","f","g","h","i","j","k","l","m",
            "n","o","p","q","r","s","t","u","v","w","x","y","z">>

IsUpper(c) == \E i \in DOMAIN Upper : Upper[i] = c

IsLower(c) == \E i \in DOMAIN Lowers : Lowers[i] = c

\* [a-z] under the i flag
IsLetter(c) == IsUpper(c) \/ IsLower(c)

\* \s, for the white space the model's texts hold
IsSpace(c) == c = " " \/ c = "\t"

toLowerCaseChar(c) ==
  IF IsUpper(c) THEN Lowers[CHOOSE i \in DOMAIN Upper : Upper[i] = c] ELSE c

RECURSIVE toLowerCase(_)
toLowerCase(s) ==
  IF s = <<>> THEN <<>> ELSE <<toLowerCaseChar(Head(s))>> \o toLowerCase(Tail(s))

\* the value JavaScript calls undefined, where a string is expected
Undefined == <<"undefined">>

\* an absent fileLine (line numbers are 1-based)
NoLine == 0

\* the index of the first occurrence of character c in s from index i on, 0 if
\* there is none
IndexOfFrom(s, c, i) ==
  LET hits == {j \in i..Len(s) : s[j] = c}
  IN IF hits = {} THEN 0 ELSE CHOOSE j \in hits : \A k \in hits : j <= k

IndexOf(s, c) == IndexOfFrom(s, c, 1)

\* the pieces of s between the separators, one piece at a step: out holds the
\* pieces before s
RECURSIVE SplitAcc(_, _, _, _)
SplitAcc(s, sep, cur, out) ==
  LET i == IndexOf(s, sep)
  IN IF i = 0 THEN Append(out, cur \o s)
     ELSE SplitAcc(SubSeq(s, i + 1, Len(s)), sep, <<>>, Append(out, cur \o SubSeq(s, 1, i - 1)))

\* String.prototype.split with a one-character separator
Split(s, sep) == SplitAcc(s, sep, <<>>, <<>>)

RECURSIVE Join(_, _)
\* Array.prototype.join
Join(parts, sep) ==
  IF parts = <<>> THEN <<>>
  ELSE IF Len(parts) = 1 THEN parts[1]
  ELSE parts[1] \o <<sep>> \o Join(Tail(parts), sep)

RECURSIVE TrimLeft(_)
TrimLeft(s) == IF s # <<>> /\ IsSpace(Head(s)) THEN TrimLeft(Tail(s)) ELSE s

RECURSIVE TrimRight(_)
TrimRight(s) ==
  IF s # <<>> /\ IsSpace(s[Len(s)]) THEN TrimRight(SubSeq(s, 1, Len(s) - 1)) ELSE s

Trim(s) == TrimLeft(TrimRight(s))

StartsWith(s, p) == Len(s) >= Len(p) /\ SubSeq(s, 1, Len(p)) = p

EndsWith(s, p) == Len(s) >= Len(p) /\ SubSeq(s, Len(s) - Len(p) + 1, Len(s)) = p

\* the number of leading white-space characters
RECURSIVE LeadingSpaces(_)
LeadingSpaces(s) ==
  IF s # <<>> /\ IsSpace(Head(s)) THEN 1 + LeadingSpaces(Tail(s)) ELSE 0


RECURSIVE DigitsOf(_)
DigitsOf(n) ==
  LET d == <<"0","1","2","3","4","5","6","7","8","9">>[(n % 10) + 1]
  IN IF n < 10 THEN <<d>> ELSE DigitsOf(n \div 10) \o <<d>>

\* ---------------------------------------------------------------- entries

\* I18nEntry: key, value, file, lang (Undefined when absent), fileLine (NoLine
\* when absent)
Entry(key, value, file, lang, fileLine) ==
  [key |-> key, value |-> value, file |-> file, lang |-> lang, fileLine |-> fileLine]

\* the string 'unknown'
UnknownStr == <<"u","n","k","n","o","w","n">>

\* `${entry.lang || 'unknown'}_${entry.key}`
uniqueKey(entry) ==
  (IF entry.lang = Undefined \/ entry.lang = <<>> THEN UnknownStr ELSE entry.lang)
    \o <<"_">> \o entry.key

\* Map.prototype.set on an insertion-ordered map held as a sequence of
\* <<key, value>> pairs: an existing key keeps its place and takes the value
MapSet(m, k, v) ==
  IF \E i \in DOMAIN m : m[i][1] = k
  THEN [i \in DOMAIN m |-> IF m[i][1] = k THEN <<k, v>> ELSE m[i]]
  ELSE Append(m, <<k, v>>)

MapHas(m, k) == \E i \in DOMAIN m : m[i][1] = k

MapGet(m, k) == m[CHOOSE i \in DOMAIN m : m[i][1] = k][2]

MapValues(m) == [i \in DOMAIN m |-> m[i][2]]

RECURSIVE uniqueMapOf(_, _)
uniqueMapOf(entries, uniqueMap) ==
  IF entries = <<>> THEN uniqueMap
  ELSE uniqueMapOf(Tail(entries), MapSet(uniqueMap, uniqueKey(Head(entries)), Head(entries)))

removeDuplicateEntries(entries) == MapValues(uniqueMapOf(entries, <<>>))

\* entry.key.match(/^([a-z]{2})\.(.+)$/i)
keyMatch(key) ==
  /\ Len(key) >= 4
  /\ IsLetter(key[1])
  /\ IsLetter(key[2])
  /\ key[3] = "."

langFromKey(key) == toLowerCase(SubSeq(key, 1, 2))

normalizedKeyOf(key) == SubSeq(key, 4, Len(key))

\* normalizeEntry stripping the code whenever the key carries one
normalizeEntryAlways(entry) ==
  IF keyMatch(entry.key)
  THEN [entry EXCEPT !.key = normalizedKeyOf(entry.key), !.lang = langFromKey(entry.key)]
  ELSE entry

\* normalizeEntry updating only an entry that has no language
normalizeEntryIfAbsent(entry) ==
  IF keyMatch(entry.key) /\ (entry.lang = Undefined \/ entry.lang = <<>>)
  THEN [entry EXCEPT !.key = normalizedKeyOf(entry.key), !.lang = langFromKey(entry.key)]
  ELSE entry

\* one iteration of the loop of normalizeI18nKeys
normalizeEntry(entry) ==
  IF /\ keyMatch(entry.key)
     /\ (entry.lang = Undefined \/ entry.lang = <<>> \/ entry.lang # langFromKey(entry.key))
  THEN [entry EXCEPT !.key = normalizedKeyOf(entry.key), !.lang = langFromKey(entry.key)]
  ELSE entry

normalizeI18nKeys(entries) == [i \in DOMAIN entries |-> normalizeEntry(entries[i])]

\* normalizeDuplicateKeyParts: drop a part equal to the part before it
RECURSIVE normalizedParts(_, _)
normalizedParts(parts, i) ==
  IF i > Len(parts) THEN <<>>
  ELSE IF i > 1 /\ parts[i] = parts[i - 1] THEN normalizedParts(parts, i + 1)
  ELSE <<parts[i]>> \o normalizedParts(parts, i + 1)

normalizeDuplicateKeyParts(key) == Join(normalizedParts(Split(key, "."), 1), ".")

\* processValue; the result is never null for a value that is not empty
\* (String.prototype.substring swaps its arguments when start > end)
processValue(valueStr0) ==
  LET valueStr == Trim(valueStr0)
      n == Len(valueStr)
  IN IF \/ (StartsWith(valueStr, <<"\"">>) /\ EndsWith(valueStr, <<"\"">>))
        \/ (StartsWith(valueStr, <<"'">>) /\ EndsWith(valueStr, <<"'">>))
     THEN IF n - 1 >= 1 THEN SubSeq(valueStr, 2, n - 1) ELSE SubSeq(valueStr, 1, 1)
     ELSE valueStr

processValueIsNull(valueStr0) == Trim(valueStr0) = <<>>

\* ------------------------------------------------------- position extractor

\* line.match(/^(\s*)([^:]+):\s*(.*)$/): the colon matched is the first one of
\* the line and at least one character precedes it; (\s*) is greedy but leaves
\* one character to ([^:]+)
lineMatches(line) == IndexOf(line, ":") >= 2

linePre(line) == SubSeq(line, 1, IndexOf(line, ":") - 1)

\* match[1].length
lineIndent(line) ==
  LET pre == linePre(line)
      ws == LeadingSpaces(pre)
  IN IF ws = Len(pre) THEN ws - 1 ELSE ws

\* match[2]
lineKey(line) == SubSeq(linePre(line), lineIndent(line) + 1, Len(linePre(line)))

\* match[3]
lineValue(line) == TrimLeft(SubSeq(line, IndexOf(line, ":") + 1, Len(line)))

\* while (keyStack.length > 0 && indentLevel <= keyStack.length * 2) keyStack.pop()
RECURSIVE popKeyStack(_, _)
popKeyStack(keyStack, indentLevel) ==
  IF Len(keyStack) > 0 /\ indentLevel <= Len(keyStack) * 2
  THEN popKeyStack(SubSeq(keyStack, 1, Len(keyStack) - 1), indentLevel)
  ELSE keyStack

\* the body of the loop keeping the line already recorded for a path
extractLineKeepFirst(rawLine, lineNo, st) ==
  LET line == Trim(rawLine)
  IN IF line = <<>> \/ StartsWith(line, <<"#">>) THEN st
     ELSE IF ~lineMatches(line) THEN st
     ELSE LET indentLevel == lineIndent(line)
              key == Trim(lineKey(line))
              value == Trim(lineValue(line))
              keyStack == Append(popKeyStack(st[1], indentLevel), key)
          IN IF value # <<>> /\ value # <<"~">> /\ ~MapHas(st[2], Join(keyStack, "."))
             THEN <<keyStack, MapSet(st[2], Join(keyStack, "."), lineNo)>>
             ELSE <<keyStack, st[2]>>

\* the body of the loop of extractKeyPositions for lines[i]; the state is
\* <<keyStack, keyPositions>>
extractLine(rawLine, lineNo, st) ==
  LET line == Trim(rawLine)
  IN IF line = <<>> \/ StartsWith(line, <<"#">>) THEN st
     ELSE IF ~lineMatches(line) THEN st
     ELSE LET indentLevel == lineIndent(line)
              key == Trim(lineKey(line))
              value == Trim(lineValue(line))
              keyStack == Append(popKeyStack(st[1], indentLevel), key)
          IN IF value # <<>> /\ value # <<"~">>
             THEN <<keyStack, MapSet(st[2], Join(keyStack, "."), lineNo)>>
             ELSE <<keyStack, st[2]>>

RECURSIVE extractLines(_, _, _)
extractLines(lines, i, st) ==
  IF i > Len(lines) THEN st ELSE extractLines(lines, i + 1, extractLine(lines[i], i, st))

\* the Map returned, as a sequence of <<fullKey, line>> in insertion order
extractKeyPositions(content) == extractLines(Split(content, "\n"), 1, <<<<>>, <<>>>>)[2]

\* the value of the first entry of the map whose key ends with suffix, NoLine
\* if there is none
RECURSIVE firstEndingWith(_, _, _)
firstEndingWith(keyPositions, suffix, i) ==
  IF i > Len(keyPositions) THEN NoLine
  ELSE IF EndsWith(keyPositions[i][1], suffix) THEN keyPositions[i][2]
  ELSE firstEndingWith(keyPositions, suffix, i + 1)

\* the lookup without the step on the last two parts
findLineNumberLastPartOnly(keyPositions, key) ==
  IF key = <<>> THEN NoLine
  ELSE IF MapHas(keyPositions, key) THEN MapGet(keyPositions, key)
  ELSE IF IndexOf(key, ".") > 0
  THEN LET keyParts == Split(key, ".")
       IN firstEndingWith(keyPositions, keyParts[Len(keyParts)], 1)
  ELSE NoLine

findLineNumber(keyPositions, key) ==
  IF key = <<>> THEN NoLine
  ELSE IF MapHas(keyPositions, key) THEN MapGet(keyPositions, key)
  ELSE IF IndexOf(key, ".") > 0
  THEN LET keyParts == Split(key, ".")
           n == Len(keyParts)
           lastTwoParts == Join(SubSeq(keyParts, IF n >= 2 THEN n - 1 ELSE 1, n), ".")
           lastPart == keyParts[n]
           byTwo == firstEndingWith(keyPositions, lastTwoParts, 1)
       IN IF byTwo # NoLine THEN byTwo ELSE firstEndingWith(keyPositions, lastPart, 1)
  ELSE NoLine

\* ------------------------------------------------------ fallback line parser

\* currentSections.slice(0, -diff)
sliceOff(currentSections, diff) ==
  SubSeq(currentSections, 1, IF Len(currentSections) > diff THEN Len(currentSections) - diff ELSE 0)

\* the body of the loop of attemptPartialParsing for lines[i]; the state is
\* <<currentSections, currentIndent, entries pushed>>
partialLine(rawLine, lineNo, filePath, lang, st) ==
  LET line == TrimRight(rawLine)
  IN IF Trim(line) = <<>> \/ StartsWith(Trim(line), <<"#">>) THEN st
     ELSE IF ~lineMatches(line) THEN st
     ELSE LET indent == lineIndent(line)
              valueStr == lineValue(line)
              sections == IF indent <= st[2]
                          THEN sliceOff(st[1], ((st[2] - indent) \div 2) + 1)
                          ELSE st[1]
              cleanKey == Trim(lineKey(line))
          IN IF Trim(valueStr) = <<>> \/ Trim(valueStr) = <<"~">>
             THEN <<Append(sections, cleanKey), indent, st[3]>>
             ELSE IF processValueIsNull(Trim(valueStr)) THEN <<sections, indent, st[3]>>
             ELSE <<sections, indent,
                    Append(st[3], Entry(Join(Append(sections, cleanKey), "."),
                                        processValue(Trim(valueStr)), filePath, lang, lineNo))>>

RECURSIVE partialLines(_, _, _, _, _)
partialLines(lines, i, filePath, lang, st) ==
  IF i > Len(lines) THEN st
  ELSE partialLines(lines, i + 1, filePath, lang, partialLine(lines[i], i, filePath, lang, st))

\* the entries attemptPartialParsing pushes, in order
attemptPartialParsing(content, filePath, lang) ==
  partialLines(Split(content, "\n"), 1, filePath, lang, <<<<>>, 0, <<>>>>)[3]

\* ------------------------------------------------------------ tree flattener

\* what yaml.parse returns: t is the typeof the value ("null" for null); an
\* object holds its own keys in property order, each with its value (props);
\* a string, number or boolean holds its value in s, n or b
ObjectNode(props) == [t |-> "object", s |-> <<>>, n |-> 0, b |-> FALSE, props |-> props]

StringNode(str) == [t |-> "string", s |-> str, n |-> 0, b |-> FALSE, props |-> <<>>]

NumberNode(num) == [t |-> "number", s |-> <<>>, n |-> num, b |-> FALSE, props |-> <<>>]

BooleanNode(bool) == [t |-> "boolean", s |-> <<>>, n |-> 0, b |-> bool, props |-> <<>>]

NullNode == [t |-> "null", s |-> <<>>, n |-> 0, b |-> FALSE, props |-> <<>>]

Prop(k, v) == [k |-> k, v |-> v]

\* typeof x === 'object' (true of null)
typeofObject(node) == node.t = "object" \/ node.t = "null"

\* !x
falsy(node) ==
  \/ node.t = "null"
  \/ (node.t = "string" /\ node.s = <<>>)
  \/ (node.t = "number" /\ node.n = 0)
  \/ (node.t = "boolean" /\ ~node.b)

\* String(value)
stringOf(node) ==
  IF node.t = "string" THEN node.s
  ELSE IF node.t = "number" THEN DigitsOf(node.n)
  ELSE IF node.b THEN <<"t","r","u","e">> ELSE <<"f","a","l","s","e">>

\* /^[a-z]{2}$/i.test(key)
isLanguageCode(key) == Len(key) = 2 /\ IsLetter(key[1]) /\ IsLetter(key[2])

\* fileName.match(/^([a-z]{2})[_\.]/i)
fileNameMatch(fileName) ==
  /\ Len(fileName) >= 3
  /\ IsLetter(fileName[1])
  /\ IsLetter(fileName[2])
  /\ fileName[3] \in {"_", "."}

getLangFromFileName(fileName) ==
  IF fileNameMatch(fileName) THEN toLowerCase(SubSeq(fileName, 1, 2)) ELSE Undefined

\* path.basename
basename(filePath) == LET parts == Split(filePath, "/") IN parts[Len(parts)]

\* the length guard of flattenYaml
MaxKeyLength == 200

isLanguageRoot(prop) == isLanguageCode(prop.k) /\ typeofObject(prop.v)

RECURSIVE flattenYaml(_, _, _, _, _)

\* the first loop of flattenYaml: each language-code key of the object is
\* flattened with an empty prefix and its own code as language, then deleted
RECURSIVE flattenLanguageRoots(_, _, _)
flattenLanguageRoots(props, filePath, keyPositions) ==
  IF props = <<>> THEN <<>>
  ELSE (IF isLanguageRoot(Head(props))
        THEN flattenYaml(Head(props).v, <<>>, filePath, toLowerCase(Head(props).k), keyPositions)
        ELSE <<>>)
       \o flattenLanguageRoots(Tail(props), filePath, keyPositions)

\* the second loop rejecting a key of MaxKeyLength characters too
RECURSIVE flattenPropsGuardAtLimit(_, _, _, _, _)
flattenPropsGuardAtLimit(props, prefix, filePath, lang, keyPositions) ==
  IF props = <<>> THEN <<>>
  ELSE LET key == Head(props).k
           value == Head(props).v
           newKey == IF prefix # <<>> THEN prefix \o <<".">> \o key ELSE key
           normalizedKey == normalizeDuplicateKeyParts(newKey)
       IN (IF value.t = "object"
           THEN flattenYaml(value, normalizedKey, filePath, lang, keyPositions)
           ELSE IF value.t \in {"string", "number", "boolean"}
                   /\ ~(Len(normalizedKey) >= MaxKeyLength)
           THEN <<Entry(normalizedKey, stringOf(value), filePath, lang,
                        findLineNumber(keyPositions, normalizedKey))>>
           ELSE <<>>)
          \o flattenPropsGuardAtLimit(Tail(props), prefix, filePath, lang, keyPositions)

\* the second loop of flattenYaml, over the keys left
RECURSIVE flattenProps(_, _, _, _, _)
flattenProps(props, prefix, filePath, lang, keyPositions) ==
  IF props = <<>> THEN <<>>
  ELSE LET key == Head(props).k
           value == Head(props).v
           newKey == IF prefix # <<>> THEN prefix \o <<".">> \o key ELSE key
           normalizedKey == normalizeDuplicateKeyParts(newKey)
       IN (IF value.t = "object"
           THEN flattenYaml(value, normalizedKey, filePath, lang, keyPositions)
           ELSE IF value.t \in {"string", "number", "boolean"}
                   /\ ~(Len(normalizedKey) > MaxKeyLength)
           THEN <<Entry(normalizedKey, stringOf(value), filePath, lang,
                        findLineNumber(keyPositions, normalizedKey))>>
           ELSE <<>>)
          \o flattenProps(Tail(props), prefix, filePath, lang, keyPositions)

\* the entries flattenYaml pushes, in order
flattenYaml(obj, prefix, filePath, lang0, keyPositions) ==
  IF falsy(obj) \/ obj.t # "object" THEN <<>>
  ELSE LET lang == IF lang0 = Undefined \/ lang0 = <<>>
                   THEN getLangFromFileName(basename(filePath)) ELSE lang0
           roots == IF prefix = <<>> THEN flattenLanguageRoots(obj.props, filePath, keyPositions)
                    ELSE <<>>
           left == IF prefix = <<>>
                   THEN SelectSeq(obj.props, LAMBDA p : ~isLanguageRoot(p)) ELSE obj.props
       IN roots \o flattenProps(left, prefix, filePath, lang, keyPositions)

\* ------------------------------------------------------------------ scanner

\* A node of the file tree: what readdirSync names, what statSync says of it
\* ("file", "directory", or "throws" for a name that cannot be stat'ed, such
\* as a dangling link), whether readFileSync succeeds, the text read, what
\* yaml.parse makes of the text (a node, or ParseError when it throws), and
\* for a directory its own listing
FileNode(name, readable, content, parsed) ==
  [name |-> name, stat |-> "file", readable |-> readable, content |-> content,
   parsed |-> parsed, files |-> <<>>]

DirNode(name, files) ==
  [name |-> name, stat |-> "directory", readable |-> FALSE, content |-> <<>>,
   parsed |-> NullNode, files |-> files]

DanglingNode(name) ==
  [name |-> name, stat |-> "throws", readable |-> FALSE, content |-> <<>>,
   parsed |-> NullNode, files |-> <<>>]

ParseError == [t |-> "YAMLParseError", s |-> <<>>, n |-> 0, b |-> FALSE, props |-> <<>>]

\* file.match(/^([a-z]{2})[\._]/i) ? langMatch[1] : getLangFromFileName(file)
langOfFile(file) ==
  IF fileNameMatch(file) THEN SubSeq(file, 1, 2) ELSE getLangFromFileName(file)

isYamlName(file) ==
  EndsWith(file, <<".","y","m","l">>) \/ EndsWith(file, <<".","y","a","m","l">>)

\* scanDirectory as the list of its calls of parseYamlFile, in order: statSync
\* throwing is caught outside the loop, so it ends the listing of its directory
RECURSIVE scanDirectory(_, _)
scanDirectory(dirPath, files) ==
  IF files = <<>> THEN <<>>
  ELSE LET file == Head(files)
           filePath == dirPath \o <<"/">> \o file.name
       IN IF file.stat = "throws" THEN <<>>
          ELSE IF file.stat = "directory"
          THEN scanDirectory(filePath, file.files) \o scanDirectory(dirPath, Tail(files))
          ELSE IF isYamlName(file.name)
          THEN <<[filePath |-> filePath, lang |-> langOfFile(file.name), node |-> file]>>
               \o scanDirectory(dirPath, Tail(files))
          ELSE scanDirectory(dirPath, Tail(files))

\* String.prototype.includes
RECURSIVE Includes(_, _)
Includes(s, sub) ==
  IF Len(s) < Len(sub) THEN FALSE
  ELSE StartsWith(s, sub) \/ Includes(Tail(s), sub)

\* scanWorkspaceFolders over the configured paths that pass the tmp filter of
\* scanLocaleFiles: a path that does not exist is skipped
RECURSIVE scanWorkspaceFolders(_)
scanWorkspaceFolders(localesPaths) ==
  IF localesPaths = <<>> THEN <<>>
  ELSE LET root == Head(localesPaths)
       IN (IF ~Includes(root.path, <<"t","m","p">>) /\ root.exists
           THEN scanDirectory(root.path, root.files) ELSE <<>>)
          \o scanWorkspaceFolders(Tail(localesPaths))

\* parseYamlFile with the fallback parser in the outer catch as well
parseYamlFileCatchAll(call) ==
  LET lang == IF call.lang = Undefined
              THEN getLangFromFileName(basename(call.filePath)) ELSE call.lang
  IN IF ~call.node.readable \/ call.node.parsed.t = "YAMLParseError"
     THEN [route |-> "fallback",
           pushed |-> attemptPartialParsing(call.node.content, call.filePath, lang)]
     ELSE IF falsy(call.node.parsed) THEN [route |-> "empty", pushed |-> <<>>]
     ELSE [route |-> "flatten",
           pushed |-> flattenYaml(call.node.parsed, <<>>, call.filePath, lang,
                                  extractKeyPositions(call.node.content))]

\* one call of parseYamlFile: the branch it takes and the entries it pushes
parseYamlFile(call) ==
  IF ~call.node.readable THEN [route |-> "unreadable", pushed |-> <<>>]
  ELSE LET lang == IF call.lang = Undefined
                   THEN getLangFromFileName(basename(call.filePath)) ELSE call.lang
       IN IF call.node.parsed.t = "YAMLParseError"
          THEN [route |-> "fallback",
                pushed |-> attemptPartialParsing(call.node.content, call.filePath, lang)]
          ELSE IF falsy(call.node.parsed) THEN [route |-> "empty", pushed |-> <<>>]
          ELSE [route |-> "flatten",
                pushed |-> flattenYaml(call.node.parsed, <<>>, call.filePath, lang,
                                       extractKeyPositions(call.node.content))]

\* the two post-processing calls of scanLocaleFiles
postProcess(entries) == normalizeI18nKeys(removeDuplicateEntries(entries))

\* ----------------------------------------------------------------- resolver

\* Array.prototype.filter
RECURSIVE Filter(_, _)
Filter(seq, keep) ==
  IF seq = <<>> THEN <<>>
  ELSE (IF Head(seq) \in keep THEN <<Head(seq)>> ELSE <<>>) \o Filter(Tail(seq), keep)

Abs(n) == IF n < 0 THEN 0 - n ELSE n

\* Array.prototype.sort with a numeric comparator a.w - b.w, which is stable:
\* an item goes behind the items of no greater weight already placed
RECURSIVE InsertByWeight(_, _)
InsertByWeight(sorted, item) ==
  IF sorted = <<>> THEN <<item>>
  ELSE IF Head(sorted).w <= item.w
       THEN <<Head(sorted)>> \o InsertByWeight(Tail(sorted), item)
       ELSE <<item>> \o sorted

RECURSIVE SortByWeight(_, _)
SortByWeight(items, sorted) ==
  IF items = <<>> THEN sorted
  ELSE SortByWeight(Tail(items), InsertByWeight(sorted, Head(items)))

\* key.split('#{')[0]: the text before the first '#{', all of it if there is none
RECURSIVE beforeMarker(_)
beforeMarker(key) ==
  IF key = <<>> THEN <<>>
  ELSE IF StartsWith(key, <<"#", "{">>) THEN <<>>
  ELSE <<Head(key)>> \o beforeMarker(Tail(key))

\* key.split('#{')[0].replace(/\.$/, '')
baseKeyOf(key) ==
  LET head == beforeMarker(key)
  IN IF head # <<>> /\ head[Len(head)] = "." THEN SubSeq(head, 1, Len(head) - 1) ELSE head

\* key.includes('#{')
isDynamicKey(key) == Includes(key, <<"#", "{">>)

getEntriesByLang(entries, lang) ==
  Filter(entries, {e \in {entries[i] : i \in DOMAIN entries} : e.lang = lang})

\* the entries of findByKey's baseMatches sorted by closeness of key length
closestFirst(baseMatches, key) ==
  LET weighted == [i \in DOMAIN baseMatches |->
                     [w |-> Abs(Len(baseMatches[i].key) - Len(key)), e |-> baseMatches[i]]]
      sorted == SortByWeight(weighted, <<>>)
  IN [i \in DOMAIN sorted |-> sorted[i].e]

\* findByKey without the sort: the first entry below the prefix
findByKeyFirstMatch(entries, key) ==
  LET all == {entries[i] : i \in DOMAIN entries}
      exactMatches == Filter(entries, {e \in all : e.key = key})
      baseKey == baseKeyOf(key)
      baseMatches == Filter(entries, {e \in all : StartsWith(e.key, baseKey)})
  IN IF exactMatches # <<>> THEN exactMatches
     ELSE IF isDynamicKey(key) /\ baseKey # <<>> /\ baseMatches # <<>>
     THEN <<baseMatches[1]>>
     ELSE <<>>

findByKey(entries, key) ==
  LET all == {entries[i] : i \in DOMAIN entries}
      exactMatches == Filter(entries, {e \in all : e.key = key})
      baseKey == baseKeyOf(key)
      baseMatches == Filter(entries, {e \in all : StartsWith(e.key, baseKey)})
  IN IF exactMatches # <<>> THEN exactMatches
     ELSE IF isDynamicKey(key) /\ baseKey # <<>> /\ baseMatches # <<>>
     THEN <<closestFirst(baseMatches, key)[1]>>
     ELSE <<>>

\* Array.prototype.find: the first entry of the kept ones, none as <<>>
Find(entries, keep) ==
  IF Filter(entries, keep) = <<>> THEN <<>> ELSE <<Filter(entries, keep)[1]>>

\* findExactKey; preferredLang is Undefined when not given; the result is a
\* list of one entry, or empty for undefined
findExactKey(entries, key, preferredLang) ==
  LET all == {entries[i] : i \in DOMAIN entries}
      preferredEntry == Find(entries, {e \in all : e.key = key /\ e.lang = preferredLang})
  IN IF preferredLang # Undefined /\ preferredLang # <<>> /\ preferredEntry # <<>>
     THEN preferredEntry
     ELSE Find(entries, {e \in all : e.key = key})

\* the UTF-16 code unit of a letter, which the default sort compares
CharCode(c) ==
  IF IsUpper(c) THEN 64 + (CHOOSE i \in DOMAIN Upper : Upper[i] = c)
  ELSE IF IsLower(c) THEN 96 + (CHOOSE i \in DOMAIN Lowers : Lowers[i] = c)
  ELSE 0

\* a < b for strings, as Array.prototype.sort without a comparator orders them
RECURSIVE StringLess(_, _)
StringLess(a, b) ==
  IF b = <<>> THEN FALSE
  ELSE IF a = <<>> THEN TRUE
  ELSE IF Head(a) = Head(b) THEN StringLess(Tail(a), Tail(b))
  ELSE CharCode(Head(a)) < CharCode(Head(b))

\* Array.from(set).sort()
RECURSIVE SortStrings(_)
SortStrings(set) ==
  IF set = {} THEN <<>>
  ELSE LET least == CHOOSE x \in set : \A y \in set \ {x} : StringLess(x, y)
       IN <<least>> \o SortStrings(set \ {least})

priorityLangs == <<<<"k", "o">>, <<"e", "n">>, <<"j", "a">>>>

\* getLanguageCodes: the languages of the index, ko, en and ja first
getLanguageCodes(entries) ==
  LET langSet == {entries[i].lang : i \in DOMAIN entries} \ {Undefined, <<>>}
      first == Filter(priorityLangs, langSet)
  IN first \o SortStrings(langSet \ {priorityLangs[i] : i \in DOMAIN priorityLangs})

\* the entries of the given languages, language by language
RECURSIVE entriesOfLangs(_, _)
entriesOfLangs(entries, langs) ==
  IF langs = <<>> THEN <<>>
  ELSE getEntriesByLang(entries, Head(langs)) \o entriesOfLangs(entries, Tail(langs))

sortEntriesByLanguage(entries, languageCodes) ==
  LET all == {entries[i] : i \in DOMAIN entries}
      codes == {languageCodes[i] : i \in DOMAIN languageCodes}
      otherEntries == Filter(entries, {e \in all : e.lang \in {Undefined, <<>>} \/ e.lang \notin codes})
  IN entriesOfLangs(entries, languageCodes) \o otherEntries

\* provideHover: the entries matching the key, before they are grouped
hoverMatched(entries, key) ==
  LET all == {entries[i] : i \in DOMAIN entries}
      exact == Filter(entries, {e \in all : e.key = key})
      baseKey == baseKeyOf(key)
      starting == Filter(entries, {e \in all : StartsWith(e.key, baseKey)})
      weighted == [i \in DOMAIN starting |-> [w |-> Len(starting[i].key), e |-> starting[i]]]
      sorted == SortByWeight(weighted, <<>>)
      baseEntries == [i \in DOMAIN sorted |-> sorted[i].e]
  IN IF exact = <<>> /\ isDynamicKey(key) /\ baseKey # <<>> /\ baseEntries # <<>>
     THEN SubSeq(baseEntries, 1, IF Len(baseEntries) < 3 THEN Len(baseEntries) ELSE 3)
     ELSE exact

\* Object.keys(langGroups): the languages of the matched entries in the order
\* of their first entry
RECURSIVE groupKeys(_, _)
groupKeys(matched, seen) ==
  IF matched = <<>> THEN seen
  ELSE LET lang == Head(matched).lang
       IN groupKeys(Tail(matched),
                    IF lang \in {Undefined, <<>>} \/ \E i \in DOMAIN seen : seen[i] = lang
                    THEN seen ELSE Append(seen, lang))

\* groupEntriesByLanguage and addLanguageGroupsToContent: the language groups
\* a hover shows, in order, each with its entries
hoverGroups(matched, languageCodes) ==
  LET keys == groupKeys(matched, <<>>)
      codes == {languageCodes[i] : i \in DOMAIN languageCodes}
      known == Filter(languageCodes, {keys[i] : i \in DOMAIN keys})
      others == Filter(keys, {keys[i] : i \in DOMAIN keys} \ codes)
      order == known \o others
  IN [i \in DOMAIN order |-> [lang |-> order[i], entries |-> getEntriesByLang(matched, order[i])]]

\* the entries a definition can point at: entry.file && entry.fileLine !== undefined
locatable(entries, key) ==
  Filter(entries, {e \in {entries[i] : i \in DOMAIN entries} :
                     e.key = key /\ e.file # <<>> /\ e.fileLine # NoLine})

findExactMatchLocations(entries, key) == locatable(entries, key)

\* the first language code whose prefixed key has a locatable entry
RECURSIVE firstPrefixed(_, _, _)
firstPrefixed(entries, key, codes) ==
  IF codes = <<>> THEN <<>>
  ELSE IF locatable(entries, Head(codes) \o <<".">> \o key) # <<>>
  THEN Head(codes) \o <<".">> \o key
  ELSE firstPrefixed(entries, key, Tail(codes))

\* findAlternativeKeyLocations without the branch that strips a language code
findAlternativeKeyLocationsPrependOnly(entries, key, languageCodes) ==
  LET alternativeKey == firstPrefixed(entries, key, languageCodes)
  IN IF alternativeKey # <<>> THEN locatable(entries, alternativeKey) ELSE <<>>

\* findAlternativeKeyLocations; languageCodes is getLanguageCodes()
findAlternativeKeyLocations(entries, key, languageCodes) ==
  LET codes == {languageCodes[i] : i \in DOMAIN languageCodes}
      alternativeKey ==
        IF keyMatch(key) /\ langFromKey(key) \in codes THEN normalizedKeyOf(key)
        ELSE firstPrefixed(entries, key, languageCodes)
  IN IF alternativeKey # <<>> THEN locatable(entries, alternativeKey) ELSE <<>>

\* provideDefinition from the extracted key on: the entries located
provideDefinition(entries, key) ==
  IF entries = <<>> THEN <<>>
  ELSE IF findExactMatchLocations(entries, key) # <<>>
  THEN findExactMatchLocations(entries, key)
  ELSE findAlternativeKeyLocations(entries, key, getLanguageCodes(entries))

\* ----------------------------------------------------------------- fixtures

\* en.yml, well formed: x: A
EnYml == FileNode(<<"e","n",".","y","m","l">>, TRUE, <<"x",":"," ","A">>,
                  ObjectNode(<<Prop(<<"x">>, StringNode(<<"A">>))>>))

\* en_b.yml, well formed: x: B
EnBYml == FileNode(<<"e","n","_","b",".","y","m","l">>, TRUE, <<"x",":"," ","B">>,
                   ObjectNode(<<Prop(<<"x">>, StringNode(<<"B">>))>>))

\* m.yml, which yaml.parse rejects (a plain scalar cannot start with @):
\*   en:
\*     x: C
\*   a:
\*     a: D
\*   @
BadYml == FileNode(<<"m",".","y","m","l">>, TRUE, <<"e","n",":","\n"," "," ","x",":"," ","C","\n","a",":","\n"," "," ","a",":"," ","D","\n","@">>, ParseError)

\* KO.yml, well formed, its language code in upper case: y: E
KoYml == FileNode(<<"K","O",".","y","m","l">>, TRUE, <<"y",":"," ","E">>,
                  ObjectNode(<<Prop(<<"y">>, StringNode(<<"E">>))>>))

\* ja.yml, which readFileSync cannot read
UnreadableYml == FileNode(<<"j","a",".","y","m","l">>, FALSE, <<>>, NullNode)

\* a name statSync throws on
Dangling == DanglingNode(<<"z","z",".","y","m","l">>)

\* a file that is no locale file
Readme == FileNode(<<"R","E","A","D","M","E">>, TRUE, <<>>, NullNode)

\* a directory below the root
SubDir == DirNode(<<"s","u","b">>, <<EnBYml>>)

Nodes == {EnYml, BadYml, UnreadableYml, Dangling, Readme, SubDir}

\* the longest listing of the root directory
MaxFiles == 2

RECURSIVE Listings(_)
\* the listings readdirSync can return: no name twice
Listings(n) ==
  IF n = 0 THEN {<<>>}
  ELSE LET shorter == Listings(n - 1)
       IN shorter \cup {Append(l, f) : l \in {x \in shorter : Len(x) = n - 1},
                                       f \in Nodes}

Injective(l) == \A i, j \in DOMAIN l : l[i].name = l[j].name => i = j

LocalesPath == <<"l","o","c">>

TmpPath == <<"t","m","p">>

Root(path, exists, files) == [path |-> path, exists |-> exists, files |-> files]

\* what vscode.workspace gives a scan: whether there are workspace folders,
\* and the configured localesPaths, each joined to the folder
Workspaces ==
  {[folders |-> TRUE, localesPaths |-> <<Root(LocalesPath, TRUE, l)>>] :
      l \in {x \in Listings(MaxFiles) : x # <<>> /\ Injective(x)}}
  \cup {[folders |-> FALSE, localesPaths |-> <<Root(LocalesPath, TRUE, <<EnYml>>)>>],
        [folders |-> TRUE, localesPaths |-> <<Root(LocalesPath, TRUE, <<KoYml, EnYml>>)>>],
        [folders |-> TRUE, localesPaths |-> <<Root(TmpPath, TRUE, <<BadYml>>),
                                              Root(LocalesPath, FALSE, <<>>),
                                              Root(LocalesPath, TRUE, <<EnYml>>)>>]}

\* ------------------------------------------------------------ state machine

\* the scans that can be in flight: the one activate starts and one the
\* command or a completion request starts
Scans == {"s1", "s2"}

NoDoc == [tree |-> NullNode, filePath |-> <<>>, lang |-> Undefined, keyPositions |-> <<>>,
          content |-> <<>>]

NoWorkspace == [folders |-> FALSE, localesPaths |-> <<>>]

NoResp == [op |-> "none", key |-> <<>>, entries |-> <<>>, groups |-> <<>>,
           inFlight |-> {}, finished |-> <<>>]

VARIABLES
  workspace,    \* the workspace folders, the configuration and the files
  i18nEntries,  \* the scanner's index
  pc,           \* per scan: "idle", "scanning" (suspended at an await), "done"
  pos,          \* per scan: how many calls of parseYamlFile it has made
  returned,     \* per scan: what scanLocaleFiles returned
  log,          \* per scan: the result of each call of parseYamlFile, in order
  overlapped,   \* per scan: whether another scan was in flight while it ran
  finished,     \* the index as the last scan to end left it
  resp,         \* what the last reader call returned, until another step runs
  doc,          \* the parsed document handed to flattenYaml (SpecFlatten)
  deduped,      \* the index between the two post-processing calls (SpecPost)
  stage         \* which specification runs, and how far its function has run

scanVars == <<workspace, pc, pos, returned, log, overlapped, finished, resp>>

vars == <<workspace, i18nEntries, pc, pos, returned, log, overlapped, finished, resp,
          doc, deduped, stage>>

\* the calls of parseYamlFile one scan of the workspace makes, in order
calls == scanWorkspaceFolders(workspace.localesPaths)

InFlight == {s \in Scans : pc[s] = "scanning"}

\* what a reader call returned: the entries, for a hover their language groups,
\* and the scans in flight and the last finished index at the time of the call
Resp(op, key, entries, groups) ==
  [op |-> op, key |-> key, entries |-> entries, groups |-> groups,
   inFlight |-> InFlight, finished |-> finished]

Init ==
  /\ workspace \in Workspaces
  /\ i18nEntries = <<>>
  /\ pc = [s \in Scans |-> "idle"]
  /\ pos = [s \in Scans |-> 0]
  /\ returned = [s \in Scans |-> <<>>]
  /\ log = [s \in Scans |-> <<>>]
  /\ overlapped = [s \in Scans |-> FALSE]
  /\ finished = <<>>
  /\ resp = NoResp
  /\ doc = NoDoc
  /\ deduped = <<>>
  /\ stage = "scan"

\* ScanStart without line 49: the previous index is kept
ScanStartKeep(s) ==
  /\ pc[s] = "idle"
  /\ resp' = NoResp
  /\ UNCHANGED <<workspace, doc, deduped, stage>>
  /\ IF ~workspace.folders
     THEN /\ pc' = [pc EXCEPT ![s] = "done"]
          /\ returned' = [returned EXCEPT ![s] = i18nEntries]
          /\ finished' = i18nEntries
          /\ UNCHANGED <<i18nEntries, pos, log, overlapped>>
     ELSE /\ pc' = [pc EXCEPT ![s] = "scanning"]
          /\ overlapped' = [t \in Scans |->
                              IF InFlight # {} /\ (t = s \/ t \in InFlight)
                              THEN TRUE ELSE overlapped[t]]
          /\ UNCHANGED <<returned, finished>>
          /\ IF calls = <<>>
             THEN UNCHANGED <<i18nEntries, pos, log>>
             ELSE /\ i18nEntries' = i18nEntries \o parseYamlFile(calls[1]).pushed
                  /\ pos' = [pos EXCEPT ![s] = 1]
                  /\ log' = [log EXCEPT ![s] = <<parseYamlFile(calls[1])>>]

\* scanLocaleFiles up to its first await: the index is emptied; without
\* workspace folders the scan returns at once; otherwise the directories are
\* walked up to and including the first call of parseYamlFile
StartScan(s) ==
  /\ pc[s] = "idle"
  /\ UNCHANGED <<workspace, doc, deduped, stage>>
  /\ IF ~workspace.folders
     THEN /\ i18nEntries' = <<>>
          /\ pc' = [pc EXCEPT ![s] = "done"]
          /\ returned' = [returned EXCEPT ![s] = <<>>]
          /\ finished' = <<>>
          /\ UNCHANGED <<pos, log, overlapped>>
     ELSE /\ pc' = [pc EXCEPT ![s] = "scanning"]
          /\ overlapped' = [t \in Scans |->
                              IF InFlight # {} /\ (t = s \/ t \in InFlight)
                              THEN TRUE ELSE overlapped[t]]
          /\ UNCHANGED <<returned, finished>>
          /\ IF calls = <<>>
             THEN /\ i18nEntries' = <<>>
                  /\ UNCHANGED <<pos, log>>
             ELSE /\ i18nEntries' = parseYamlFile(calls[1]).pushed
                  /\ pos' = [pos EXCEPT ![s] = 1]
                  /\ log' = [log EXCEPT ![s] = <<parseYamlFile(calls[1])>>]

ScanStart(s) == StartScan(s) /\ resp' = NoResp

\* the scan resumes after an await and makes its next call of parseYamlFile
ScanFile(s) ==
  /\ pc[s] = "scanning"
  /\ pos[s] < Len(calls)
  /\ i18nEntries' = i18nEntries \o parseYamlFile(calls[pos[s] + 1]).pushed
  /\ pos' = [pos EXCEPT ![s] = pos[s] + 1]
  /\ log' = [log EXCEPT ![s] = Append(log[s], parseYamlFile(calls[pos[s] + 1]))]
  /\ resp' = NoResp
  /\ UNCHANGED <<workspace, pc, returned, overlapped, finished, doc, deduped, stage>>

\* the scan resumes after scanWorkspaceFolders: post-processing and return
ScanFinish(s) ==
  /\ pc[s] = "scanning"
  /\ pos[s] = Len(calls)
  /\ i18nEntries' = postProcess(i18nEntries)
  /\ returned' = [returned EXCEPT ![s] = i18nEntries']
  /\ finished' = i18nEntries'
  /\ pc' = [pc EXCEPT ![s] = "done"]
  /\ resp' = NoResp
  /\ UNCHANGED <<workspace, pos, log, overlapped, doc, deduped, stage>>

\* getEntries served from the index the last scan finished
GetEntriesSnapshot ==
  /\ resp' = Resp("getEntries", <<>>, finished, <<>>)
  /\ UNCHANGED <<workspace, i18nEntries, pc, pos, returned, log, overlapped, finished,
               doc, deduped, stage>>

\* a reader: getEntries returns the index as it is
GetEntries ==
  /\ resp' = Resp("getEntries", <<>>, i18nEntries, <<>>)
  /\ UNCHANGED <<workspace, i18nEntries, pc, pos, returned, log, overlapped, finished,
               doc, deduped, stage>>

Next ==
  \/ \E s \in Scans : ScanStart(s)
  \/ \E s \in Scans : ScanFile(s)
  \/ \E s \in Scans : ScanFinish(s)
  \/ GetEntries

Spec == Init /\ [][Next]_vars

\* ------------------------------------------------------------------ readers

readerFrame == <<workspace, i18nEntries, pc, pos, returned, log, overlapped, finished,
                 doc, deduped, stage>>

GetEntriesByLang(lang) ==
  /\ resp' = Resp("getEntriesByLang", lang, getEntriesByLang(i18nEntries, lang), <<>>)
  /\ UNCHANGED readerFrame

FindByKey(key) ==
  /\ resp' = Resp("findByKey", key, findByKey(i18nEntries, key), <<>>)
  /\ UNCHANGED readerFrame

FindExactKey(key, preferredLang) ==
  /\ resp' = Resp("findExactKey", key, findExactKey(i18nEntries, key, preferredLang), <<>>)
  /\ UNCHANGED readerFrame

\* provideHover from the extracted key on: on an empty index it shows a notice
ProvideHover(key) ==
  /\ resp' = IF i18nEntries = <<>> THEN Resp("hover", key, <<>>, <<>>)
             ELSE Resp("hover", key, hoverMatched(i18nEntries, key),
                       hoverGroups(hoverMatched(i18nEntries, key),
                                   getLanguageCodes(i18nEntries)))
  /\ UNCHANGED readerFrame

ProvideDefinition(key) ==
  /\ resp' = Resp("definition", key, provideDefinition(i18nEntries, key), <<>>)
  /\ UNCHANGED readerFrame

\* provideCompletionItems ranking the index itself instead of a copy of it
ProvideCompletionItemsInPlace ==
  IF i18nEntries = <<>>
  THEN \E s \in Scans : StartScan(s) /\ resp' = Resp("completion", <<>>, <<>>, <<>>)
  ELSE /\ i18nEntries' = sortEntriesByLanguage(i18nEntries, getLanguageCodes(i18nEntries))
       /\ resp' = Resp("completion", <<>>, i18nEntries', <<>>)
       /\ UNCHANGED <<workspace, pc, pos, returned, log, overlapped, finished,
                      doc, deduped, stage>>

\* provideCompletionItems past the test of the line: on an empty index it calls
\* scanLocaleFiles without awaiting it and answers with a notice
ProvideCompletionItems ==
  IF i18nEntries = <<>>
  THEN \E s \in Scans : StartScan(s) /\ resp' = Resp("completion", <<>>, <<>>, <<>>)
  ELSE /\ resp' = Resp("completion", <<>>,
                       sortEntriesByLanguage(i18nEntries, getLanguageCodes(i18nEntries)),
                       <<>>)
       /\ UNCHANGED readerFrame

\* the keys and the language asked for while the scanner runs
ScanQueries == {<<"x">>, <<"a", ".", "#", "{", "k", "}">>}

ScanLangs == {<<"e", "n">>}

Readers(keys, langs) ==
  \/ GetEntries
  \/ \E lang \in langs : GetEntriesByLang(lang)
  \/ \E key \in keys : FindByKey(key)
  \/ \E key \in keys, lang \in langs \cup {Undefined} : FindExactKey(key, lang)
  \/ \E key \in keys : ProvideHover(key)
  \/ \E key \in keys : ProvideDefinition(key)
  \/ ProvideCompletionItems

NextReaders ==
  \/ \E s \in Scans : ScanStart(s)
  \/ \E s \in Scans : ScanFile(s)
  \/ \E s \in Scans : ScanFinish(s)
  \/ Readers(ScanQueries, ScanLangs)

\* the scanner with every reader of the index
SpecReaders == Init /\ [][NextReaders]_vars

\* ------------------------------------------------- the resolver on its own

\* the most entries of an index handed to the resolver
MaxIndex == 4

LocaleFile == <<"l", "o", "c", "/", "a", ".", "y", "m", "l">>

\* entries a finished index can hold: keys of several lengths below one
\* prefix, the same key in several languages, a key that keeps its language
\* code, an entry without language and line (the file name gives no language,
\* findLineNumber finds no line)
IndexEntries ==
  {Entry(<<"u", ".", "g">>, <<"1">>, LocaleFile, <<"e", "n">>, 1),
   Entry(<<"u", ".", "g">>, <<"2">>, LocaleFile, <<"k", "o">>, 2),
   Entry(<<"u", ".", "g", ".", "f">>, <<"3">>, LocaleFile, <<"f", "r">>, 3),
   Entry(<<"u", ".", "g", ".", "f">>, <<"4">>, LocaleFile, Undefined, NoLine),
   Entry(<<"u", ".", "g", ".", "c", "a">>, <<"5">>, LocaleFile, <<"d", "e">>, 5),
   Entry(<<"u", ".", "g", ".", "c", "a", "s">>, <<"6">>, LocaleFile, <<"j", "a">>, 6),
   Entry(<<"k", "o", ".", "u", ".", "g">>, <<"7">>, LocaleFile, <<"k", "o">>, 7)}

\* the lists of up to n entries, no entry twice
RECURSIVE Indexes(_)
Indexes(n) ==
  IF n = 0 THEN {<<>>}
  ELSE LET shorter == Indexes(n - 1)
       IN shorter \cup
          UNION {{Append(l, e) : e \in {x \in IndexEntries : \A i \in DOMAIN l : l[i] # x}} :
                   l \in {x \in shorter : Len(x) = n - 1}}

\* the keys looked up: exact keys, keys with a variable, with the prefix
\* ending in '.' or not, an empty prefix, a key with a language code, a miss
Queries ==
  {<<"u", ".", "g">>,
   <<"u", ".", "g", ".", "#", "{", "t", "}">>,
   <<"u", ".", "g", "#", "{", "t", "}">>,
   <<"u", ".", "#", "{", "t", "}", ".", "x">>,
   <<".", "#", "{", "t", "}">>,
   <<"k", "o", ".", "u", ".", "g">>,
   <<"u", ".", "g", ".", "f">>,
   <<"f", "r", ".", "u", ".", "g">>,
   <<"k", "o", ".", "u", ".", "g", ".", "f">>,
   <<"z", ".", "#", "{", "t", "}">>}

QueryLangs == {<<"k", "o">>, <<"d", "e">>}

InitResolve ==
  /\ i18nEntries \in Indexes(MaxIndex)
  /\ workspace = NoWorkspace
  /\ pc = [s \in Scans |-> "idle"]
  /\ pos = [s \in Scans |-> 0]
  /\ returned = [s \in Scans |-> <<>>]
  /\ log = [s \in Scans |-> <<>>]
  /\ overlapped = [s \in Scans |-> FALSE]
  /\ finished = i18nEntries
  /\ resp = NoResp
  /\ doc = NoDoc
  /\ deduped = <<>>
  /\ stage = "finished"

\* one lookup against the finished index
NextResolve ==
  \/ resp = NoResp /\ GetEntries
  \/ resp = NoResp /\ \E lang \in QueryLangs : GetEntriesByLang(lang)
  \/ resp = NoResp /\ \E key \in Queries : FindByKey(key)
  \/ resp = NoResp /\ \E key \in Queries, lang \in QueryLangs \cup {Undefined} :
                         FindExactKey(key, lang)
  \/ resp = NoResp /\ \E key \in Queries : ProvideHover(key)
  \/ resp = NoResp /\ \E key \in Queries : ProvideDefinition(key)
  \/ resp = NoResp /\ ProvideCompletionItems

SpecResolve == InitResolve /\ [][NextResolve]_vars

\* ------------------------------------------- the post-processor on its own

\* the longest list of raw entries handed to the post-processor
MaxEntries == 2

\* keys the flattener and the fallback parser can push
RawKeys == {<<"x">>, <<"e","n",".","x">>, <<"E","N",".","x">>, <<"k","o",".","e","n",".","x">>, <<"e","n","x",".","y">>, <<"e","n",".">>}

\* languages an entry can carry: none, a language root's or getLangFromFileName's
\* lower-case code, or the code as scanDirectory cuts it from the file name
RawLangs == {Undefined, <<"e","n">>, <<"E","N">>, <<"k","o">>}

RawEntries ==
  {Entry(k, v, <<"l","o","c","/","m",".","y","m","l">>, l, 1) : k \in RawKeys, v \in {<<"1">>, <<"2">>}, l \in RawLangs}

RECURSIVE RawLists(_)
RawLists(n) ==
  IF n = 0 THEN {<<>>}
  ELSE LET shorter == RawLists(n - 1)
       IN shorter \cup {Append(l, e) : l \in {x \in shorter : Len(x) = n - 1},
                                       e \in RawEntries}

InitPost ==
  /\ i18nEntries \in RawLists(MaxEntries)
  /\ workspace = NoWorkspace
  /\ pc = [s \in Scans |-> "idle"]
  /\ pos = [s \in Scans |-> 0]
  /\ returned = [s \in Scans |-> <<>>]
  /\ log = [s \in Scans |-> <<>>]
  /\ overlapped = [s \in Scans |-> FALSE]
  /\ finished = <<>>
  /\ resp = NoResp
  /\ doc = NoDoc
  /\ deduped = <<>>
  /\ stage = "raw"

\* removeDuplicateEntries, then normalizeI18nKeys (scanLocaleFiles, 69-71)
PostProcess ==
  /\ stage = "raw"
  /\ deduped' = removeDuplicateEntries(i18nEntries)
  /\ i18nEntries' = normalizeI18nKeys(removeDuplicateEntries(i18nEntries))
  /\ stage' = "normalized"
  /\ UNCHANGED <<scanVars, doc>>

NextPost == PostProcess

SpecPost == InitPost /\ [][NextPost]_vars

\* --------------------------------------------------- the flattener on its own

\* the deepest nesting of the documents handed to flattenYaml
MaxDepth == 3

DocKeys == {<<"a">>, <<"b">>, <<"k","o">>, <<"K","O">>, <<"i","d">>}

DocLeaves == {StringNode(<<"v">>), NumberNode(70), BooleanNode(TRUE), NullNode}

RECURSIVE Chains(_)
\* a mapping of one key, nested n deep, down to a leaf
Chains(n) ==
  IF n = 0 THEN DocLeaves
  ELSE {ObjectNode(<<Prop(k, c)>>) : k \in DocKeys, c \in Chains(n - 1)}

\* the same with a second leaf beside the first key, at the top or one level down
WithSibling(tree) ==
  {tree,
   ObjectNode(Append(tree.props, Prop(<<"z">>, StringNode(<<"w">>))))}
  \cup (IF tree.props[1].v.t = "object"
        THEN {ObjectNode(<<Prop(tree.props[1].k,
                               ObjectNode(Append(tree.props[1].v.props,
                                                 Prop(<<"z">>, StringNode(<<"w">>)))))>>)}
        ELSE {})

Docs == UNION {WithSibling(t) : t \in UNION {Chains(n) : n \in 1..MaxDepth}}

InitFlatten ==
  /\ doc \in {[tree |-> t, filePath |-> f, lang |-> getLangFromFileName(basename(f)),
               keyPositions |-> <<>>, content |-> <<>>] :
                t \in Docs, f \in {<<"l","o","c","/","e","n",".","y","m","l">>, <<"l","o","c","/","x",".","y","m","l">>}}
  /\ i18nEntries = <<>>
  /\ workspace = NoWorkspace
  /\ pc = [s \in Scans |-> "idle"]
  /\ pos = [s \in Scans |-> 0]
  /\ returned = [s \in Scans |-> <<>>]
  /\ log = [s \in Scans |-> <<>>]
  /\ overlapped = [s \in Scans |-> FALSE]
  /\ finished = <<>>
  /\ resp = NoResp
  /\ deduped = <<>>
  /\ stage = "parsed"

\* the call of flattenYaml in parseYamlFile
Flatten ==
  /\ stage = "parsed"
  /\ i18nEntries' = i18nEntries
                     \o flattenYaml(doc.tree, <<>>, doc.filePath, doc.lang, doc.keyPositions)
  /\ stage' = "flattened"
  /\ UNCHANGED <<scanVars, doc, deduped>>

NextFlatten == Flatten

SpecFlatten == InitFlatten /\ [][NextFlatten]_vars

\* ------------------------------------------- the two line passes on their own

\* the longest text, in lines
MaxLines == 3

\* the indentations of a line
Indents == {0, 2, 4}

\* the key and the inline value of a line: a section line has no value
LineKinds == {<<<<"a">>, <<>>>>, <<<<"b">>, <<>>>>, <<<<"b">>, <<"h","i">>>>,
              <<<<"c">>, <<"h","i">>>>, <<<<"c">>, <<"~">>>>}

Spaces(n) == [i \in 1..n |-> " "]

LineOf(indent, kind) ==
  Spaces(indent) \o kind[1] \o <<":">> \o (IF kind[2] = <<>> THEN <<>> ELSE <<" ">> \o kind[2])

RECURSIVE LineLists(_)
\* the lists of at most n lines, the first one a top-level key
LineLists(n) ==
  IF n = 1 THEN {<<LineOf(0, k)>> : k \in LineKinds}
  ELSE LET shorter == LineLists(n - 1)
       IN shorter \cup {Append(l, LineOf(i, k)) :
                          l \in {x \in shorter : Len(x) = n - 1}, i \in Indents, k \in LineKinds}

\* the text of a file: its lines, each ended by a line feed
Texts == {Join(l, "\n") \o <<"\n">> : l \in LineLists(MaxLines)}

InitText ==
  /\ doc \in {[tree |-> NullNode, filePath |-> f, lang |-> getLangFromFileName(basename(f)),
               keyPositions |-> <<>>, content |-> t] :
                t \in Texts, f \in {<<"l","o","c","/","e","n",".","y","m","l">>}}
  /\ i18nEntries = <<>>
  /\ workspace = NoWorkspace
  /\ pc = [s \in Scans |-> "idle"]
  /\ pos = [s \in Scans |-> 0]
  /\ returned = [s \in Scans |-> <<>>]
  /\ log = [s \in Scans |-> <<>>]
  /\ overlapped = [s \in Scans |-> FALSE]
  /\ finished = <<>>
  /\ resp = NoResp
  /\ deduped = <<>>
  /\ stage = "text"

\* the call of extractKeyPositions in parseYamlFile
ExtractKeyPositions ==
  /\ stage = "text"
  /\ doc' = [doc EXCEPT !.keyPositions = extractKeyPositions(doc.content)]
  /\ stage' = "extracted"
  /\ UNCHANGED <<scanVars, i18nEntries, deduped>>

\* the call of attemptPartialParsing in parseYamlFile
AttemptPartialParsing ==
  /\ stage = "text"
  /\ i18nEntries' = i18nEntries \o attemptPartialParsing(doc.content, doc.filePath, doc.lang)
  /\ stage' = "partial"
  /\ UNCHANGED <<workspace, pc, pos, returned, log, overlapped, finished, resp, doc, deduped>>

NextText == ExtractKeyPositions \/ AttemptPartialParsing

SpecText == InitText /\ [][NextText]_vars

\* ------------------------------------------- the line lookup of the flattener

\* the most paths of a position table
MaxTable == 3

\* the paths a position table can hold, each with the line it was recorded at
TablePaths == {<<<<"b">>, 5>>, <<<<"a",".","b">>, 4>>, <<<<"c",".","a",".","b">>, 3>>,
               <<<<"a","b">>, 2>>, <<<<"c","a",".","b">>, 1>>, <<<<"c">>, 6>>}

RECURSIVE Tables(_)
\* the tables of at most n paths, in every insertion order, no path twice
Tables(n) ==
  IF n = 0 THEN {<<>>}
  ELSE LET shorter == Tables(n - 1)
       IN shorter \cup UNION {{Append(l, e) : e \in {x \in TablePaths : \A i \in DOMAIN l : l[i] # x}} :
                                l \in {x \in shorter : Len(x) = n - 1}}

\* the segments of the keys of a document
LeafSegments == {<<"a">>, <<"b">>, <<"c">>}

RECURSIVE ChainOf(_)
\* the document in which the keys of the list are nested down to one string
ChainOf(segments) ==
  IF segments = <<>> THEN StringNode(<<"v">>)
  ELSE ObjectNode(<<Prop(Head(segments), ChainOf(Tail(segments)))>>)

LeafDocs == {ChainOf(l) : l \in UNION {[1..n -> LeafSegments] : n \in 1..3}}

InitLine ==
  /\ doc \in {[tree |-> t, filePath |-> f, lang |-> getLangFromFileName(basename(f)),
               keyPositions |-> k, content |-> <<>>] :
                t \in LeafDocs, k \in Tables(MaxTable),
                f \in {<<"l","o","c","/","e","n",".","y","m","l">>}}
  /\ i18nEntries = <<>>
  /\ workspace = NoWorkspace
  /\ pc = [s \in Scans |-> "idle"]
  /\ pos = [s \in Scans |-> 0]
  /\ returned = [s \in Scans |-> <<>>]
  /\ log = [s \in Scans |-> <<>>]
  /\ overlapped = [s \in Scans |-> FALSE]
  /\ finished = <<>>
  /\ resp = NoResp
  /\ deduped = <<>>
  /\ stage = "parsed"

NextLine == Flatten

\* flattenYaml on a document of one leaf, with a position table
SpecLine == InitLine /\ [][NextLine]_vars

\* ------------------------------------------------ the flattener on long keys

\* how far below and above the length guard the key paths reach
MaxOver == 4

\* the lengths of the key paths around the guard
PathLengths == (MaxKeyLength - MaxOver)..(MaxKeyLength + MaxOver)

\* a key of n characters
LongKey(n) == [i \in 1..n |-> "k"]

Sibling == Prop(<<"z">>, StringNode(<<"w">>))

\* a leaf whose key path has n characters, at the top (the key alone) or one
\* level down (below 'a', the path being 'a.' and the key)
LongLeaf(n, nested, leaf) ==
  IF nested THEN Prop(<<"a">>, ObjectNode(<<Prop(LongKey(n - 2), leaf), Sibling>>))
  ELSE Prop(LongKey(n), leaf)

\* documents with such a leaf and a short sibling before or after it, and
\* documents in which a key repeats its parent, so that the normalized path is
\* shorter than the raw one
LongDocs ==
  {ObjectNode(<<LongLeaf(n, nested, leaf), Sibling>>) :
     n \in PathLengths, nested \in BOOLEAN,
     leaf \in {StringNode(<<"v">>), NumberNode(70), BooleanNode(TRUE)}}
  \cup {ObjectNode(<<Sibling, LongLeaf(n, FALSE, StringNode(<<"v">>))>>) : n \in PathLengths}
  \cup {ObjectNode(<<Prop(LongKey(n), ObjectNode(<<Prop(LongKey(n), StringNode(<<"v">>))>>)),
                     Sibling>>) : n \in PathLengths}

InitLong ==
  /\ doc \in {[tree |-> t, filePath |-> f, lang |-> getLangFromFileName(basename(f)),
               keyPositions |-> <<>>, content |-> <<>>] :
                t \in LongDocs, f \in {<<"l","o","c","/","e","n",".","y","m","l">>}}
  /\ i18nEntries = <<>>
  /\ workspace = NoWorkspace
  /\ pc = [s \in Scans |-> "idle"]
  /\ pos = [s \in Scans |-> 0]
  /\ returned = [s \in Scans |-> <<>>]
  /\ log = [s \in Scans |-> <<>>]
  /\ overlapped = [s \in Scans |-> FALSE]
  /\ finished = <<>>
  /\ resp = NoResp
  /\ deduped = <<>>
  /\ stage = "parsed"

NextLong == Flatten

\* flattenYaml on documents with key paths around the length guard
SpecLong == InitLong /\ [][NextLong]_vars

\* ===================================================================== claims

RECURSIVE Concat(_)
Concat(lists) == IF lists = <<>> THEN <<>> ELSE Head(lists) \o Concat(Tail(lists))

\* the raw entries a scan's own calls of parseYamlFile have pushed so far
PushedBy(s) == Concat([i \in DOMAIN log[s] |-> log[s][i].pushed])

NoDuplicatePairs(entries) ==
  \A i, j \in DOMAIN entries :
    (entries[i].key = entries[j].key /\ entries[i].lang = entries[j].lang) => i = j

\* C1 (as claimed): once a scan has completed, no two entries of the index it
\* returns share both key and language.
C1_NoDuplicatePairs ==
  \A s \in Scans : pc[s] = "done" => NoDuplicatePairs(returned[s])

\* C2 (as claimed): a reader invoked while a scan is in flight sees a finished
\* index, the one the last scan to finish left.
C2_ReaderSeesFinishedIndex ==
  (resp.op = "getEntries" /\ resp.inFlight # {}) => resp.entries = resp.finished

\* C2 (amended): a reader invoked while no scan is in flight sees the index the
\* last scan to finish left; a reader invoked while one scan is in flight, with
\* no other scan overlapping it, sees the index under construction: exactly the
\* raw entries that scan has pushed so far.
C2_ReaderSeesIndexUnderConstruction ==
  resp.op = "getEntries" =>
    /\ resp.inFlight = {} => resp.entries = resp.finished
    /\ \A s \in resp.inFlight : ~overlapped[s] => resp.entries = PushedBy(s)

C2_Witness ==
  /\ resp.op = "getEntries"
  /\ resp.inFlight # {}
  /\ \A s \in resp.inFlight : ~overlapped[s]
  /\ resp.finished # <<>>
  /\ resp.entries # <<>>
  /\ resp.entries # resp.finished

\* C3 (as claimed): the index a scan returns is the post-processed entries of
\* the files that scan parsed, every file of the walk among them, also when
\* another scan ran meanwhile.
C3_FullRebuildAlways ==
  \A s \in Scans : pc[s] = "done" =>
    /\ returned[s] = postProcess(PushedBy(s))
    /\ workspace.folders => Len(log[s]) = Len(calls)

\* C3 (amended): the same, for a scan no other scan overlapped.
C3_FullRebuildAlone ==
  \A s \in Scans : (pc[s] = "done" /\ ~overlapped[s]) =>
    /\ returned[s] = postProcess(PushedBy(s))
    /\ workspace.folders => Len(log[s]) = Len(calls)

C3_Witness ==
  \E s, t \in Scans :
    /\ s # t
    /\ pc[s] = "done" /\ pc[t] = "done"
    /\ ~overlapped[s] /\ ~overlapped[t]
    /\ Len(log[s]) = 2
    /\ returned[s] # <<>>

KeyClean(key) ==
  LET parts == Split(key, ".")
  IN /\ key # <<>> => (key[1] # "." /\ key[Len(key)] # ".")
     /\ \A i \in 2..Len(parts) : parts[i] # parts[i - 1]

\* C8 (as claimed): once a scan has completed, no key of the index starts or
\* ends with '.' or has two adjacent identical segments.
C8_KeysClean ==
  \A s \in Scans : pc[s] = "done" =>
    \A i \in DOMAIN returned[s] : KeyClean(returned[s][i].key)

\* every locale file under a directory, a name that cannot be stat'ed skipped
RECURSIVE everyLocaleFile(_, _)
everyLocaleFile(dirPath, files) ==
  IF files = <<>> THEN <<>>
  ELSE LET file == Head(files)
           filePath == dirPath \o <<"/">> \o file.name
       IN (IF file.stat = "directory" THEN everyLocaleFile(filePath, file.files)
           ELSE IF file.stat = "file" /\ isYamlName(file.name)
           THEN <<[filePath |-> filePath, lang |-> langOfFile(file.name), node |-> file]>>
           ELSE <<>>)
          \o everyLocaleFile(dirPath, Tail(files))

RECURSIVE everyLocaleFileOf(_)
everyLocaleFileOf(localesPaths) ==
  IF localesPaths = <<>> THEN <<>>
  ELSE (IF ~Includes(Head(localesPaths).path, <<"t","m","p">>) /\ Head(localesPaths).exists
        THEN everyLocaleFile(Head(localesPaths).path, Head(localesPaths).files) ELSE <<>>)
       \o everyLocaleFileOf(Tail(localesPaths))

\* C9 (as claimed): whichever file fails, the scan completes and the index
\* holds the post-processed entries of every other locale file under the
\* configured roots.
C9_OtherFilesContribute ==
  \A s \in Scans : (pc[s] = "done" /\ ~overlapped[s] /\ workspace.folders) =>
    LET every == everyLocaleFileOf(workspace.localesPaths)
    IN returned[s] = postProcess(Concat([i \in DOMAIN every |-> parseYamlFile(every[i]).pushed]))

\* the lines of a text that hold a key, a colon and a value
valueLines(content) ==
  LET lines == Split(content, "\n")
  IN {i \in DOMAIN lines :
        /\ Trim(lines[i]) # <<>>
        /\ ~StartsWith(Trim(lines[i]), <<"#">>)
        /\ lineMatches(TrimRight(lines[i]))
        /\ Trim(lineValue(TrimRight(lines[i]))) \notin {<<>>, <<"~">>}}

\* C10: the fallback parser runs for a file exactly when the file was read and
\* yaml.parse threw; it then pushes one entry, of that file, for each of the
\* file's lines holding a key and a value; a file that parsed contributes what
\* flattening it gives; and the index a scan running alone builds is its files'
\* contributions one after the other.
C10_FallbackIffParseFails ==
  \A s \in Scans :
    /\ \A i \in DOMAIN log[s] :
         LET call == calls[i]
             r == log[s][i]
             failed == call.node.readable /\ call.node.parsed.t = "YAMLParseError"
             lang == IF call.lang = Undefined
                     THEN getLangFromFileName(basename(call.filePath)) ELSE call.lang
         IN /\ r.route = "fallback" <=> failed
            /\ failed =>
                 /\ \A e \in {r.pushed[k] : k \in DOMAIN r.pushed} :
                       e.file = call.filePath /\ e.fileLine \in valueLines(call.node.content)
                 /\ \A n \in valueLines(call.node.content) :
                       Cardinality({k \in DOMAIN r.pushed : r.pushed[k].fileLine = n}) = 1
            /\ (call.node.readable /\ call.node.parsed.t = "object") =>
                 r.pushed = flattenYaml(call.node.parsed, <<>>, call.filePath, lang,
                                        extractKeyPositions(call.node.content))
    /\ (pc[s] = "scanning" /\ ~overlapped[s]) => i18nEntries = PushedBy(s)

C10_Witness ==
  \E s \in Scans : \E i, j \in DOMAIN log[s] :
    /\ ~overlapped[s]
    /\ log[s][i].route = "fallback" /\ Len(log[s][i].pushed) = 2
    /\ log[s][j].route = "flatten" /\ log[s][j].pushed # <<>>
    /\ i < j

\* ------------------------------------------------------------------ flattener

\* the scalar leaves below a mapping, in document order, each with the keys
\* on the way to it
RECURSIVE leavesOf(_, _)
RECURSIVE leavesOfProps(_, _)
leavesOfProps(props, path) ==
  IF props = <<>> THEN <<>>
  ELSE leavesOf(Head(props).v, Append(path, Head(props).k)) \o leavesOfProps(Tail(props), path)

leavesOf(node, path) ==
  IF node.t = "object" THEN leavesOfProps(node.props, path)
  ELSE IF node.t \in {"string", "number", "boolean"} THEN <<[path |-> path, node |-> node]>>
  ELSE <<>>

triple(key, value, lang) == [key |-> key, value |-> value, lang |-> lang]

triplesOf(entries) ==
  {triple(entries[i].key, entries[i].value, entries[i].lang) : i \in DOMAIN entries}

\* the document is one language root: a two-letter key holding a mapping
OneLanguageRoot(tree) ==
  /\ tree.t = "object"
  /\ Len(tree.props) = 1
  /\ Len(tree.props[1].k) = 2
  /\ IsLetter(tree.props[1].k[1]) /\ IsLetter(tree.props[1].k[2])
  /\ tree.props[1].v.t = "object"

\* no key on the way to a leaf repeats the key above it, so that collapsing
\* adjacent identical segments (normalizeDuplicateKeyParts) changes no path
NoRepeatedKey(leaves) ==
  \A i \in DOMAIN leaves :
    \A n \in 2..Len(leaves[i].path) : leaves[i].path[n] # leaves[i].path[n - 1]

\* C4 (as claimed, for paths on which no key repeats the key above it):
\* flattening a document that is one language root L gives exactly one entry
\* for each scalar leaf below L: its key the dot-joined path from below L to
\* the leaf, its value the leaf's text, its language L in lower case.
C4_OneEntryPerLeaf ==
  (/\ stage = "flattened"
   /\ OneLanguageRoot(doc.tree)
   /\ NoRepeatedKey(leavesOf(doc.tree.props[1].v, <<>>))) =>
    LET leaves == leavesOf(doc.tree.props[1].v, <<>>)
    IN /\ Len(i18nEntries) = Len(leaves)
       /\ triplesOf(i18nEntries) =
            {triple(Join(leaves[i].path, "."), stringOf(leaves[i].node),
                    toLowerCase(doc.tree.props[1].k)) : i \in DOMAIN leaves}

\* a two-letter key holding a mapping directly below the language root
NestedCode(tree) ==
  /\ OneLanguageRoot(tree)
  /\ LET below == tree.props[1].v.props[1]
     IN /\ Len(below.k) = 2
        /\ IsLetter(below.k[1]) /\ IsLetter(below.k[2])
        /\ below.v.t = "object"

\* C5 (as claimed): below a language root L a two-letter key holding a mapping
\* is a path segment: the entries of the leaves beneath it have language L and
\* a key whose first segment is that key.
C5_RootDetectedAtTopOnly ==
  (stage = "flattened" /\ NestedCode(doc.tree)) =>
    LET below == doc.tree.props[1].v.props[1]
        leaves == leavesOf(below.v, <<below.k>>)
    IN \A i \in DOMAIN leaves :
         \E j \in DOMAIN i18nEntries :
           /\ i18nEntries[j].lang = toLowerCase(doc.tree.props[1].k)
           /\ i18nEntries[j].value = stringOf(leaves[i].node)
           /\ Split(i18nEntries[j].key, ".")[1] = below.k

\* ------------------------------------------------------------- post-processor

\* a key of the form <two letters>.<rest>, the rest not empty
CodeForm(key) ==
  Len(key) >= 4 /\ IsLetter(key[1]) /\ IsLetter(key[2]) /\ key[3] = "."

CodeOf(key) == toLowerCase(SubSeq(key, 1, 2))

RestOf(key) == SubSeq(key, 4, Len(key))

\* C6 (as claimed): normalization strips the leading code of a key whose code
\* equals the entry's language up to case, and keeps the language.
C6_RedundantCodeStripped ==
  stage = "normalized" =>
    /\ Len(i18nEntries) = Len(deduped)
    /\ \A i \in DOMAIN deduped :
         (/\ CodeForm(deduped[i].key)
          /\ deduped[i].lang # Undefined
          /\ toLowerCase(deduped[i].lang) = CodeOf(deduped[i].key))
         => /\ i18nEntries[i].key = RestOf(deduped[i].key)
            /\ i18nEntries[i].lang = deduped[i].lang

\* C6 (amended): normalization leaves unchanged an entry whose language is
\* exactly the lower-cased code of its key, which keeps the code; an entry
\* whose language equals the code only up to case loses the code from its key
\* and gets the lower-cased code as language.
C6_RedundantCodeKept ==
  stage = "normalized" =>
    /\ Len(i18nEntries) = Len(deduped)
    /\ \A i \in DOMAIN deduped :
         (CodeForm(deduped[i].key) /\ deduped[i].lang # Undefined
          /\ toLowerCase(deduped[i].lang) = CodeOf(deduped[i].key))
         => IF deduped[i].lang = CodeOf(deduped[i].key)
            THEN i18nEntries[i] = deduped[i]
            ELSE i18nEntries[i] = [deduped[i] EXCEPT !.key = RestOf(deduped[i].key),
                                                     !.lang = CodeOf(deduped[i].key)]

C6_Witness ==
  /\ stage = "normalized"
  /\ \E i, j \in DOMAIN deduped :
       /\ CodeForm(deduped[i].key) /\ deduped[i].lang = CodeOf(deduped[i].key)
       /\ i18nEntries[i].key = deduped[i].key
       /\ CodeForm(deduped[j].key) /\ deduped[j].lang # CodeOf(deduped[j].key)
       /\ toLowerCase(deduped[j].lang) = CodeOf(deduped[j].key)

\* C7: normalization turns an entry whose key is <code>.<rest> and whose
\* language is absent or differs from the code (up to case) into the same
\* entry with key <rest> and the lower-cased code as language.
C7_EmbeddedCodeOverrides ==
  stage = "normalized" =>
    /\ Len(i18nEntries) = Len(deduped)
    /\ \A i \in DOMAIN deduped :
         (/\ CodeForm(deduped[i].key)
          /\ (deduped[i].lang = Undefined
              \/ toLowerCase(deduped[i].lang) # CodeOf(deduped[i].key)))
         => i18nEntries[i] = [deduped[i] EXCEPT !.key = RestOf(deduped[i].key),
                                                !.lang = CodeOf(deduped[i].key)]

C7_Witness ==
  /\ stage = "normalized"
  /\ \E i, j \in DOMAIN deduped :
       /\ CodeForm(deduped[i].key) /\ deduped[i].lang = Undefined
       /\ i18nEntries[i].lang = <<"e","n">>
       /\ CodeForm(deduped[j].key) /\ deduped[j].lang = <<"k","o">>
       /\ CodeOf(deduped[j].key) = <<"e","n">>
       /\ i18nEntries[j].key = <<"x">>

\* ----------------------------------------------------------- deduplication

\* the entries a scan's files define, in scan order, the language code of a
\* key moved to the language
DefinedBy(s) == normalizeI18nKeys(PushedBy(s))

SamePair(e, f) == e.key = f.key /\ e.lang = f.lang

\* C11 (as claimed): once a scan that ran alone has finished, the index holds
\* exactly one entry for each (language, key) pair its files define, and the
\* value is that of the last definition in scan order.
C11_LastDefinitionWins ==
  \A s \in Scans : (pc[s] = "done" /\ ~overlapped[s]) =>
    LET defined == DefinedBy(s)
    IN \A i \in DOMAIN defined :
         LET last == CHOOSE j \in DOMAIN defined :
                       /\ SamePair(defined[j], defined[i])
                       /\ \A k \in DOMAIN defined :
                            SamePair(defined[k], defined[i]) => k <= j
             hits == {k \in DOMAIN returned[s] : SamePair(returned[s][k], defined[i])}
         IN /\ Cardinality(hits) = 1
            /\ \A k \in hits : returned[s][k].value = defined[last].value

\* ------------------------------------------------------------------- resolver

\* the place of the first '#{' in a key that holds one
MarkerAt(key) ==
  CHOOSE i \in 1..(Len(key) - 1) :
    /\ key[i] = "#" /\ key[i + 1] = "{"
    /\ \A j \in 1..(i - 1) : ~(key[j] = "#" /\ key[j + 1] = "{")

\* the key cut at the first '#{', one trailing '.' removed
PrefixOf(key) ==
  LET cut == SubSeq(key, 1, MarkerAt(key) - 1)
  IN IF cut # <<>> /\ cut[Len(cut)] = "." THEN SubSeq(cut, 1, Len(cut) - 1) ELSE cut

\* the places in the index of the entries whose key starts with the prefix
Below(prefix) == {i \in DOMAIN i18nEntries : StartsWith(i18nEntries[i].key, prefix)}

Distance(i, key) == Abs(Len(i18nEntries[i].key) - Len(key))

NoExactHit(key) == \A i \in DOMAIN i18nEntries : i18nEntries[i].key # key

\* C12: findByKey of a key with '#{' and no exact hit returns nothing when the
\* prefix is empty or no key starts with it, and otherwise exactly the entry
\* below the prefix whose key length is closest to the key's, the earliest in
\* the index among ties.
C12_DynamicLookupClosest ==
  (resp.op = "findByKey" /\ isDynamicKey(resp.key) /\ NoExactHit(resp.key)) =>
    LET prefix == PrefixOf(resp.key)
    IN IF prefix = <<>> \/ Below(prefix) = {}
       THEN resp.entries = <<>>
       ELSE /\ Len(resp.entries) = 1
            /\ \E i \in Below(prefix) :
                 /\ resp.entries[1] = i18nEntries[i]
                 /\ \A j \in Below(prefix) :
                      /\ Distance(j, resp.key) >= Distance(i, resp.key)
                      /\ Distance(j, resp.key) = Distance(i, resp.key) => j >= i

C12_Witness ==
  /\ resp.op = "findByKey" /\ isDynamicKey(resp.key) /\ NoExactHit(resp.key)
  /\ Len(resp.entries) = 1
  /\ \E i, j, k \in Below(PrefixOf(resp.key)) :
       /\ k < i /\ i < j
       /\ resp.entries[1] = i18nEntries[i]
       /\ Distance(k, resp.key) > Distance(i, resp.key)
       /\ Distance(j, resp.key) = Distance(i, resp.key)

\* the language codes of the index
KnownCodes == {i18nEntries[i].lang : i \in DOMAIN i18nEntries} \ {Undefined, <<>>}

\* the place of a code in the priority order: ko, en, ja, then the others
Rank(code) ==
  IF code = <<"k", "o">> THEN 1 ELSE IF code = <<"e", "n">> THEN 2
  ELSE IF code = <<"j", "a">> THEN 3 ELSE 4

ComesBefore(c, d) ==
  Rank(c) < Rank(d) \/ (Rank(c) = 4 /\ Rank(d) = 4 /\ StringLess(c, d))

\* the key begins with a two-letter segment that is a known language code
BeginsWithKnownCode(key) ==
  /\ Len(key) >= 4 /\ key[3] = "."
  /\ toLowerCase(SubSeq(key, 1, 2)) \in KnownCodes

\* the entries of the index with the given key, in index order; located: only
\* those that carry a line number
WithKey(key, located) ==
  Filter(i18nEntries, {e \in {i18nEntries[i] : i \in DOMAIN i18nEntries} :
                         e.key = key /\ (located => e.fileLine # NoLine)})

\* what alternative resolution is said to return
Alternative(key, located) ==
  IF BeginsWithKnownCode(key) THEN WithKey(SubSeq(key, 4, Len(key)), located)
  ELSE LET hits == {c \in KnownCodes : WithKey(c \o <<".">> \o key, located) # <<>>}
       IN IF hits = {} THEN <<>>
          ELSE WithKey((CHOOSE c \in hits : \A d \in hits \ {c} : ComesBefore(c, d))
                         \o <<".">> \o key, located)

Shown == Concat([i \in DOMAIN resp.groups |-> resp.groups[i].entries])

\* C14 (as claimed): a hover on a key some entry has shows every entry with
\* that key, and only those, in one group per language, no language twice,
\* each entry in the group of its language, the groups in priority order: ko,
\* en, ja, then the other codes alphabetically.
C14_HoverShowsEveryMatch ==
  (resp.op = "hover" /\ WithKey(resp.key, FALSE) # <<>>) =>
    /\ \A i, j \in DOMAIN resp.groups :
         i < j => ComesBefore(resp.groups[i].lang, resp.groups[j].lang)
    /\ \A i \in DOMAIN resp.groups :
         /\ resp.groups[i].entries # <<>>
         /\ \A k \in DOMAIN resp.groups[i].entries :
              resp.groups[i].entries[k].lang = resp.groups[i].lang
    /\ {Shown[k] : k \in DOMAIN Shown}
         = {i18nEntries[k] : k \in {n \in DOMAIN i18nEntries : i18nEntries[n].key = resp.key}}
    /\ \A k, n \in DOMAIN Shown : Shown[k] = Shown[n] => k = n

\* C15 (as claimed): a hover on a key with '#{' that no entry has shows at most
\* three entries, each with a key starting with the prefix, and no entry below
\* the prefix that is not shown has a shorter key than one that is shown.
C15_HoverShowsShortestThree ==
  (resp.op = "hover" /\ isDynamicKey(resp.key) /\ NoExactHit(resp.key)
     /\ PrefixOf(resp.key) # <<>>) =>
    /\ Len(Shown) <= 3
    /\ \A k \in DOMAIN Shown :
         /\ StartsWith(Shown[k].key, PrefixOf(resp.key))
         /\ \E i \in DOMAIN i18nEntries : i18nEntries[i] = Shown[k]
    /\ \A i \in Below(PrefixOf(resp.key)) :
         (\A k \in DOMAIN Shown : Shown[k] # i18nEntries[i]) =>
           \A k \in DOMAIN Shown : Len(i18nEntries[i].key) >= Len(Shown[k].key)

\* the lines of the text, without the empty piece after the last line feed
TextLinesOf(content) ==
  LET pieces == Split(content, "\n")
  IN IF pieces[Len(pieces)] = <<>> THEN SubSeq(pieces, 1, Len(pieces) - 1) ELSE pieces

IndentOf(line) == LeadingSpaces(line)

KeyOf(line) == SubSeq(line, IndentOf(line) + 1, IndexOf(line, ":") - 1)

ValueOf(line) == Trim(SubSeq(line, IndexOf(line, ":") + 1, Len(line)))

HasValue(line) == ValueOf(line) # <<>> /\ ValueOf(line) # <<"~">>

\* nested with 2-space indentation: the first line is a top-level key, a line
\* is indented deeper than the line above only by two and only below a
\* section line
WellNested(lines) ==
  /\ IndentOf(lines[1]) = 0
  /\ \A i \in 2..Len(lines) :
       /\ IndentOf(lines[i]) <= IndentOf(lines[i - 1]) + 2
       /\ IndentOf(lines[i]) > IndentOf(lines[i - 1]) => ValueOf(lines[i - 1]) = <<>>

RECURSIVE Enclosing(_, _, _)
\* the keys of the lines that enclose a line of the given indentation, the
\* search going upwards from line i
Enclosing(lines, i, indent) ==
  IF i = 0 \/ indent = 0 THEN <<>>
  ELSE IF IndentOf(lines[i]) < indent
  THEN Append(Enclosing(lines, i - 1, IndentOf(lines[i])), KeyOf(lines[i]))
  ELSE Enclosing(lines, i - 1, indent)

\* the dot-joined keys of the enclosing lines of line i and its own key
PathOf(lines, i) ==
  Join(Append(Enclosing(lines, i - 1, IndentOf(lines[i])), KeyOf(lines[i])), ".")

\* C16 (as claimed): in a text nested with 2-space indentation, each line with
\* a value is recorded under the dot-joined keys of its enclosing lines and its
\* own key, at its own 1-based line number (a path written on two lines aside).
C16_PositionsKeyedByPath ==
  stage = "extracted" =>
    LET lines == TextLinesOf(doc.content)
    IN WellNested(lines) =>
         \A i \in DOMAIN lines :
           (/\ HasValue(lines[i])
            /\ \A j \in DOMAIN lines :
                 (j # i /\ HasValue(lines[j])) => PathOf(lines, j) # PathOf(lines, i)) =>
             /\ MapHas(doc.keyPositions, PathOf(lines, i))
             /\ MapGet(doc.keyPositions, PathOf(lines, i)) = i

\* a step in which a reader of the index has answered
ReaderStep == resp'.op # "none"

\* C17 (as claimed): no call of a reader (getEntries, getEntriesByLang,
\* findByKey, findExactKey, completion, hover, definition) changes the index.
C17_ReadersLeaveIndex == [][ReaderStep => i18nEntries' = i18nEntries]_vars

\* C17 (amended): no call of a reader changes the index, except a completion
\* request on an empty index, which starts a scan.
C17_ReadersLeaveIndexUnlessEmpty ==
  [][(ReaderStep /\ ~(resp'.op = "completion" /\ i18nEntries = <<>>))
       => (i18nEntries' = i18nEntries /\ pc' = pc)]_vars

\* a completion request has ranked an index that is not in ranking order
C17_Witness ==
  /\ resp.op = "completion"
  /\ i18nEntries # <<>>
  /\ resp.entries # i18nEntries
  /\ Len(resp.entries) = Len(i18nEntries)

\* the index one uninterrupted scan of the workspace returns
AloneIndex == postProcess(Concat([i \in DOMAIN calls |-> parseYamlFile(calls[i]).pushed]))

\* the (language, key, value) triples an index holds
Triples(entries) ==
  {<<entries[i].lang, entries[i].key, entries[i].value>> : i \in DOMAIN entries}

\* two scans have run, one triggered while the other was in flight, and both
\* have finished
BothOverlappedDone == \A s \in Scans : pc[s] = "done" /\ overlapped[s]

\* C18 (as claimed): once two overlapping scans have both finished, the index
\* holds what one uninterrupted scan of the same files returns: the same
\* entries, the same value for every (language, key) pair, no pair twice.
C18_OverlapSameAsAlone ==
  BothOverlappedDone =>
    /\ Triples(i18nEntries) = Triples(AloneIndex)
    /\ NoDuplicatePairs(i18nEntries)

\* C19 (as claimed): in a text nested with 2-space indentation, the fallback
\* parser emits one entry for each line with a value and no other; its key is
\* the dot-joined keys of the enclosing section lines and its own key, its line
\* number the line's own; siblings under one section all get the section's path.
C19_FallbackKeyedBySections ==
  stage = "partial" =>
    LET lines == TextLinesOf(doc.content)
    IN WellNested(lines) =>
         /\ \A i \in DOMAIN lines :
              HasValue(lines[i]) =>
                \E k \in DOMAIN i18nEntries :
                  /\ i18nEntries[k].fileLine = i
                  /\ i18nEntries[k].key = PathOf(lines, i)
         /\ \A k \in DOMAIN i18nEntries :
              /\ i18nEntries[k].fileLine \in DOMAIN lines
              /\ HasValue(lines[i18nEntries[k].fileLine])

\* the parsed document has no language code among its top-level keys
NoLanguageRoot(parsed) ==
  /\ parsed.t = "object"
  /\ \A p \in DOMAIN parsed.props : ~isLanguageCode(parsed.props[p].k)

\* C20 (as claimed): every entry pushed for a file whose base name begins with
\* a two-letter code and '.' or '_', and whose document has no language root,
\* carries that code in lower case.
C20_FileLanguageLowerCase ==
  \A s \in Scans : \A i \in DOMAIN log[s] :
    LET name == basename(calls[i].filePath)
    IN (fileNameMatch(name) /\ NoLanguageRoot(calls[i].node.parsed)) =>
         \A k \in DOMAIN log[s][i].pushed :
           log[s][i].pushed[k].lang = toLowerCase(SubSeq(name, 1, 2))

\* the lines on which a path acquires a value
ValueLinesOf(lines, path) ==
  {j \in DOMAIN lines : HasValue(lines[j]) /\ PathOf(lines, j) = path}

\* the lines on which a key, whatever its section, acquires a value
ValueLinesOfKey(lines, key) ==
  {j \in DOMAIN lines : HasValue(lines[j]) /\ KeyOf(lines[j]) = key}

Lowest(S) == CHOOSE n \in S : \A m \in S : n <= m

Highest(S) == CHOOSE n \in S : \A m \in S : n >= m

FirstLineEnding(table, suffix) ==
  table[Lowest({i \in DOMAIN table : EndsWith(table[i][1], suffix)})][2]

SomeEnding(table, suffix) == \E i \in DOMAIN table : EndsWith(table[i][1], suffix)

LastSegments(key, n) ==
  LET parts == Split(key, ".")
  IN Join(SubSeq(parts, IF Len(parts) > n THEN Len(parts) - n + 1 ELSE 1, Len(parts)), ".")

MultiSegment(key) == Len(Split(key, ".")) > 1

\* the steps after the exact one, for a key the table does not hold
BySuffix(table, key) ==
  IF MultiSegment(key) /\ SomeEnding(table, LastSegments(key, 2))
  THEN FirstLineEnding(table, LastSegments(key, 2))
  ELSE IF SomeEnding(table, LastSegments(key, 1))
  THEN FirstLineEnding(table, LastSegments(key, 1))
  ELSE NoLine

\* the one leaf of the document has been flattened with the table
Looked == stage = "flattened" /\ Len(i18nEntries) = 1

\* C22 (as claimed): the line of a key is the line of the exact path; else,
\* for a multi-segment key, of the first path ending with its last two
\* segments; else of the first path ending with its last segment; else none.
C22_LookupDegrades ==
  Looked =>
    LET key == i18nEntries[1].key
        table == doc.keyPositions
    IN i18nEntries[1].fileLine =
         IF \E i \in DOMAIN table : table[i][1] = key
         THEN table[CHOOSE i \in DOMAIN table : table[i][1] = key][2]
         ELSE BySuffix(table, key)

\* C22 (amended): the same, the two suffix steps being taken for a
\* multi-segment key only: a single-segment key the table does not hold has no
\* line.
C22_LookupDegradesMultiSegment ==
  Looked =>
    LET key == i18nEntries[1].key
        table == doc.keyPositions
    IN i18nEntries[1].fileLine =
         IF \E i \in DOMAIN table : table[i][1] = key
         THEN table[CHOOSE i \in DOMAIN table : table[i][1] = key][2]
         ELSE IF MultiSegment(key) THEN BySuffix(table, key)
         ELSE NoLine

\* a multi-segment key found by its last segment only, the table holding two
\* such paths with the later line first
C22_Witness ==
  /\ Looked
  /\ MultiSegment(i18nEntries[1].key)
  /\ ~SomeEnding(doc.keyPositions, LastSegments(i18nEntries[1].key, 2))
  /\ \E i, j \in DOMAIN doc.keyPositions :
       /\ i < j
       /\ EndsWith(doc.keyPositions[i][1], LastSegments(i18nEntries[1].key, 1))
       /\ EndsWith(doc.keyPositions[j][1], LastSegments(i18nEntries[1].key, 1))
       /\ doc.keyPositions[i][2] > doc.keyPositions[j][2]
       /\ i18nEntries[1].fileLine = doc.keyPositions[i][2]

RECURSIVE LeafPaths(_, _)
\* the normalized key paths of the scalar leaves of a mapping
LeafPaths(node, prefix) ==
  UNION {LET path == normalizeDuplicateKeyParts(
                       IF prefix = <<>> THEN node.props[p].k
                       ELSE prefix \o <<".">> \o node.props[p].k)
         IN IF node.props[p].v.t = "object" THEN LeafPaths(node.props[p].v, path)
            ELSE IF node.props[p].v.t \in {"string", "number", "boolean"} THEN {path}
            ELSE {} : p \in DOMAIN node.props}

EntryKeys == {i18nEntries[i].key : i \in DOMAIN i18nEntries}

\* C23: a leaf produces an entry exactly when its normalized key path has at
\* most 200 characters, so a leaf skipped for its length does not keep the
\* other keys of its mapping and file from being emitted.
C23_OversizedLeafSkipped ==
  stage = "flattened" =>
    /\ EntryKeys = {path \in LeafPaths(doc.tree, <<>>) : Len(path) <= 200}
    /\ Len(i18nEntries) = Cardinality(EntryKeys)

\* a leaf of 201 characters is skipped, and the key after it in the same
\* mapping, and the key after that mapping, are emitted
C23_Witness ==
  /\ stage = "flattened"
  /\ \E path \in LeafPaths(doc.tree, <<>>) : Len(path) = 201 /\ path \notin EntryKeys
  /\ Len(i18nEntries) = 2
  /\ i18nEntries[1].key = <<"a", ".", "z">>
  /\ i18nEntries[2].key = <<"z">>
====
